---- MODULE Spec2Model ----
(***************************************************************************)
(* Model of docs/convert_to_docx.py: the line syntax highlighter           *)
(* (colorize_line, add_colored_runs), the helpers add_code_block and       *)
(* add_panel, the page setup and the two section switches, the topology    *)
(* section, and the save loop at the end of the script.  A text is a       *)
(* sequence of one-character strings; the regular expressions are syntax   *)
(* trees matched by a backtracking matcher that explores alternatives in   *)
(* the order Python's re does.                                             *)
(***************************************************************************)
EXTENDS Integers, Sequences, FiniteSets, TLC

VARIABLES line, pc, display_line, matches, filtered, segments, runs,
          env, spc, idx, output_path, attempts, written, printed, raised,
          topo_exists, body,
          sh_patterns, history, text, panel_type, ret, sections

hvars == <<line, pc, display_line, matches, filtered, segments, runs>>
svars == <<env, spc, idx, output_path, attempts, written, printed, raised>>
avars == <<topo_exists, body>>
xvars == <<sh_patterns, history, text, panel_type, ret, sections>>
vars == <<line, pc, display_line, matches, filtered, segments, runs,
          env, spc, idx, output_path, attempts, written, printed, raised,
          topo_exists, body,
          sh_patterns, history, text, panel_type, ret, sections>>

(***************************************************************************)
(* Characters                                                              *)
(***************************************************************************)
\* U+00A0, the no-break space, as one character of the model.
NBSP == "NBSP"
TAB == "\t"
NL == "\n"

LowerSeq == <<"a","b","c","d","e","f","g","h","i","j","k","l","m","n","o","p","q","r","s","t","u","v","w","x","y","z">>
UpperSeq == <<"A","B","C","D","E","F","G","H","I","J","K","L","M","N","O","P","Q","R","S","T","U","V","W","X","Y","Z">>
DigitSeq == <<"0","1","2","3","4","5","6","7","8","9">>

Range(f) == {f[k] : k \in DOMAIN f}

\* \d
Digit == Range(DigitSeq)
\* \w
Word == Range(LowerSeq) \cup Range(UpperSeq) \cup Digit \cup {"_"}
\* \s, and the characters str.strip() removes
Space == {" ", TAB, NL, NBSP}
\* [0-9a-fA-F]
Hex == Digit \cup {"a","b","c","d","e","f","A","B","C","D","E","F"}

\* the case folding re.IGNORECASE compares with
ToLower(c) ==
    IF \E k \in DOMAIN UpperSeq : UpperSeq[k] = c
    THEN LowerSeq[CHOOSE k \in DOMAIN UpperSeq : UpperSeq[k] = c]
    ELSE c

(***************************************************************************)
(* Regular expressions: syntax trees                                       *)
(***************************************************************************)
Eps == [t |-> "eps"]
Bol == [t |-> "bol"]
Eol == [t |-> "eol"]
WordB == [t |-> "wb"]
Dot == [t |-> "dot"]
In(cs) == [t |-> "set", cs |-> cs]
Ch(c) == [t |-> "set", cs |-> {c}]
\* [^...]
NotIn(cs) == [t |-> "nset", cs |-> cs]
Lit(w) == [t |-> "lit", w |-> w]
ILit(w) == [t |-> "ilit", w |-> w]
Cat(a, b) == [t |-> "cat", a |-> a, b |-> b]
Alt(a, b) == [t |-> "alt", a |-> a, b |-> b]
\* a{lo,hi}, greedy; hi = -1 for no upper limit
Rep(a, lo, hi) == [t |-> "rep", a |-> a, lo |-> lo, hi |-> hi]
Star(a) == Rep(a, 0, -1)
Plus(a) == Rep(a, 1, -1)
Opt(a) == Rep(a, 0, 1)
\* a*?, lazy
LazyStar(a) == [t |-> "lrep", a |-> a, lo |-> 0, hi |-> -1]

RECURSIVE CatAll(_)
CatAll(rs) == IF Len(rs) = 1 THEN rs[1] ELSE Cat(rs[1], CatAll(Tail(rs)))
RECURSIVE AltAll(_)
AltAll(rs) == IF Len(rs) = 1 THEN rs[1] ELSE Alt(rs[1], AltAll(Tail(rs)))

(***************************************************************************)
(* The matcher.  Ends(r, s, i) is the sequence of positions at which a     *)
(* match of r that starts at position i of s (1-based) can end, in the     *)
(* order a backtracking matcher tries them: the first alternative before   *)
(* the second, a longer repetition before a shorter one.                   *)
(***************************************************************************)
IsWord(s, i) == i >= 1 /\ i <= Len(s) /\ s[i] \in Word

\* \b
AtWordBoundary(s, i) == IsWord(s, i - 1) # IsWord(s, i)

\* $ without re.MULTILINE: at the end, or before a newline that ends the string
AtEnd(s, i) == i = Len(s) + 1 \/ (i = Len(s) /\ s[i] = NL)

LitAt(w, s, i) ==
    /\ i + Len(w) - 1 <= Len(s)
    /\ \A k \in 1..Len(w) : s[i + k - 1] = w[k]

\* ILitAt that compares without folding case
ILitAtCaseSensitive(w, s, i) ==
    /\ i + Len(w) - 1 <= Len(s)
    /\ \A k \in 1..Len(w) : s[i + k - 1] = w[k]

ILitAt(w, s, i) ==
    /\ i + Len(w) - 1 <= Len(s)
    /\ \A k \in 1..Len(w) : ToLower(s[i + k - 1]) = ToLower(w[k])

RECURSIVE Ends(_, _, _), EndsFrom(_, _, _, _), RepEnds(_, _, _, _), RepEndsFrom(_, _, _, _, _)
Ends(r, s, i) ==
    CASE r.t = "eps" -> <<i>>
      [] r.t = "bol" -> IF i = 1 THEN <<i>> ELSE <<>>
      [] r.t = "eol" -> IF AtEnd(s, i) THEN <<i>> ELSE <<>>
      [] r.t = "wb" -> IF AtWordBoundary(s, i) THEN <<i>> ELSE <<>>
      [] r.t = "dot" -> IF i <= Len(s) /\ s[i] # NL THEN <<i + 1>> ELSE <<>>
      [] r.t = "set" -> IF i <= Len(s) /\ s[i] \in r.cs THEN <<i + 1>> ELSE <<>>
      [] r.t = "nset" -> IF i <= Len(s) /\ s[i] \notin r.cs THEN <<i + 1>> ELSE <<>>
      [] r.t = "lit" -> IF LitAt(r.w, s, i) THEN <<i + Len(r.w)>> ELSE <<>>
      [] r.t = "ilit" -> IF ILitAt(r.w, s, i) THEN <<i + Len(r.w)>> ELSE <<>>
      [] r.t = "cat" -> EndsFrom(r.b, s, Ends(r.a, s, i), 1)
      [] r.t = "alt" -> Ends(r.a, s, i) \o Ends(r.b, s, i)
      [] r.t = "rep" -> RepEnds(r, s, i, 0)
      [] r.t = "lrep" -> RepEnds(r, s, i, 0)

\* the ends of r started at each of the positions es[k..], in order
EndsFrom(r, s, es, k) ==
    IF k > Len(es) THEN <<>>
    ELSE Ends(r, s, es[k]) \o EndsFrom(r, s, es, k + 1)

\* the ends of the repetition r after n iterations have ended at i: one more
\* iteration first (greedy), then stopping here; the other way round when lazy
RepEnds(r, s, i, n) ==
    LET more == IF r.hi = -1 \/ n < r.hi
                THEN RepEndsFrom(r, s, Ends(r.a, s, i), 1, n + 1)
                ELSE <<>>
        stop == IF n >= r.lo THEN <<i>> ELSE <<>>
    IN IF r.t = "lrep" THEN stop \o more ELSE more \o stop

RepEndsFrom(r, s, es, k, n) ==
    IF k > Len(es) THEN <<>>
    ELSE RepEnds(r, s, es[k], n) \o RepEndsFrom(r, s, es, k + 1, n)

(***************************************************************************)
(* Colours                                                                 *)
(***************************************************************************)
CLR_DEFAULT == "1E1E1E"
CLR_IP == "006BB3"
CLR_MAC == "BF6300"
CLR_GREEN == "006B44"
CLR_RED == "CC2000"
CLR_PROMPT == "00805A"
CLR_IFACE == "AA5500"
CLR_KEYWORD == "0052CC"
CLR_VNI == "6C3FB5"
CLR_COMMENT == "6B778C"

(***************************************************************************)
(* _SH_PATTERNS.  Every pattern has exactly one capturing group, which     *)
(* takes part in every match, so m.lastindex is 1 and the span is that of  *)
(* group 1: pre is what the pattern matches before the group, grp the      *)
(* group, post what follows it.                                            *)
(***************************************************************************)
\* IfaceTail as \w*
IfaceTailWordOnly == Star(In(Word))

\* [\w/.\-]*
IfaceTail == Star(In(Word \cup {"/", ".", "-"}))
\* ^\s*
LineStart == Cat(Bol, Star(In(Space)))
\* \d{1,3}
Octet == Rep(In(Digit), 1, 3)
\* [0-9a-fA-F]{n}
HexN(n) == Rep(In(Hex), n, n)

\* ^(\s*#.*)$
PatComment ==
    [pre |-> Bol,
     grp |-> CatAll(<<Star(In(Space)), Ch("#"), Star(Dot)>>),
     post |-> Eol, color |-> CLR_COMMENT, bold |-> FALSE]

\* PatPrompt with \s? after group 1 instead of inside it
PatPromptSpaceOutside ==
    [pre |-> Eps,
     grp |-> AltAll(<<
                 CatAll(<<Lit(<<"s","w">>), Plus(In(Digit)), Ch("#")>>),
                 CatAll(<<Lit(<<"c","u","m","u","l","u","s">>), In({"@", "$"}),
                          Star(In(Word \cup {":", "~"})), Opt(In({"$", "#", ">"}))>>),
                 CatAll(<<Lit(<<"a","d","m","i","n","@">>), Plus(In(Word \cup {"-"})),
                          Star(In({"-", "c", "l", "i", ">"})), Opt(Ch(">"))>>)>>),
     post |-> Opt(In(Space)), color |-> CLR_PROMPT, bold |-> TRUE]

\* ((?:sw\d+#|cumulus[@$][\w:~]*[$#>]?|admin@[\w\-]+[-cli>]*>?)\s?)
PatPrompt ==
    [pre |-> Eps,
     grp |-> Cat(AltAll(<<
                 CatAll(<<Lit(<<"s","w">>), Plus(In(Digit)), Ch("#")>>),
                 CatAll(<<Lit(<<"c","u","m","u","l","u","s">>), In({"@", "$"}),
                          Star(In(Word \cup {":", "~"})), Opt(In({"$", "#", ">"}))>>),
                 CatAll(<<Lit(<<"a","d","m","i","n","@">>), Plus(In(Word \cup {"-"})),
                          Star(In({"-", "c", "l", "i", ">"})), Opt(Ch(">"))>>)>>),
                 Opt(In(Space))),
     post |-> Eps, color |-> CLR_PROMPT, bold |-> TRUE]

\* \b(\d{1,3}\.\d{1,3}\.\d{1,3}\.\d{1,3}(?:/\d{1,2})?)\b
PatIP ==
    [pre |-> WordB,
     grp |-> CatAll(<<Octet, Ch("."), Octet, Ch("."), Octet, Ch("."), Octet,
                      Opt(Cat(Ch("/"), Rep(In(Digit), 1, 2)))>>),
     post |-> WordB, color |-> CLR_IP, bold |-> FALSE]

\* \b([0-9a-fA-F]{2}(?::[0-9a-fA-F]{2}){5})\b
PatMacColon ==
    [pre |-> WordB,
     grp |-> Cat(HexN(2), Rep(Cat(Ch(":"), HexN(2)), 5, 5)),
     post |-> WordB, color |-> CLR_MAC, bold |-> FALSE]

\* \b([0-9a-fA-F]{4}\.[0-9a-fA-F]{4}\.[0-9a-fA-F]{4})\b
PatMacDot ==
    [pre |-> WordB,
     grp |-> CatAll(<<HexN(4), Ch("."), HexN(4), Ch("."), HexN(4)>>),
     post |-> WordB, color |-> CLR_MAC, bold |-> FALSE]

\* PatStatusPos with the bold flag False
PatStatusPosNotBold ==
    [pre |-> WordB,
     grp |-> AltAll(<<ILit(<<"U","P">>), ILit(<<"F","U","L","L">>),
                      ILit(<<"E","s","t","a","b","l","i","s","h","e","d">>),
                      ILit(<<"e","s","t","a","b">>), ILit(<<"F","I","X","E","D">>),
                      ILit(<<"f","o","r","w","a","r","d","i","n","g">>)>>),
     post |-> WordB, color |-> CLR_GREEN, bold |-> FALSE]

\* \b(UP|FULL|Established|estab|FIXED|forwarding)\b with re.IGNORECASE
PatStatusPos ==
    [pre |-> WordB,
     grp |-> AltAll(<<ILit(<<"U","P">>), ILit(<<"F","U","L","L">>),
                      ILit(<<"E","s","t","a","b","l","i","s","h","e","d">>),
                      ILit(<<"e","s","t","a","b">>), ILit(<<"F","I","X","E","D">>),
                      ILit(<<"f","o","r","w","a","r","d","i","n","g">>)>>),
     post |-> WordB, color |-> CLR_GREEN, bold |-> TRUE]

\* \b(DOWN|FAIL|ERROR|DROPPED|failed|blocked)\b with re.IGNORECASE
PatStatusNeg ==
    [pre |-> WordB,
     grp |-> AltAll(<<ILit(<<"D","O","W","N">>), ILit(<<"F","A","I","L">>),
                      ILit(<<"E","R","R","O","R">>), ILit(<<"D","R","O","P","P","E","D">>),
                      ILit(<<"f","a","i","l","e","d">>), ILit(<<"b","l","o","c","k","e","d">>)>>),
     post |-> WordB, color |-> CLR_RED, bold |-> TRUE]

\* PatVNI as a rule for any number of four digits or more, \b(\d{4,})\b
PatVNIAnyNumber ==
    [pre |-> WordB,
     grp |-> Rep(In(Digit), 4, -1),
     post |-> WordB, color |-> CLR_VNI, bold |-> FALSE]

\* \b(401151|401152|401153|50101)\b
PatVNI ==
    [pre |-> WordB,
     grp |-> AltAll(<<Lit(<<"4","0","1","1","5","1">>), Lit(<<"4","0","1","1","5","2">>),
                      Lit(<<"4","0","1","1","5","3">>), Lit(<<"5","0","1","0","1">>)>>),
     post |-> WordB, color |-> CLR_VNI, bold |-> FALSE]

\* \b((?:Gi(?:gabitEthernet)?|GigabitEthernet|Te|nve|Loopback|Vlan|swp|vxlan|br_default|vlan)\d[\w/.\-]*)\b
PatIface ==
    [pre |-> WordB,
     grp |-> CatAll(<<AltAll(<<
                 Cat(Lit(<<"G","i">>), Opt(Lit(<<"g","a","b","i","t","E","t","h","e","r","n","e","t">>))),
                 Lit(<<"G","i","g","a","b","i","t","E","t","h","e","r","n","e","t">>),
                 Lit(<<"T","e">>), Lit(<<"n","v","e">>),
                 Lit(<<"L","o","o","p","b","a","c","k">>), Lit(<<"V","l","a","n">>),
                 Lit(<<"s","w","p">>), Lit(<<"v","x","l","a","n">>),
                 Lit(<<"b","r","_","d","e","f","a","u","l","t">>), Lit(<<"v","l","a","n">>)>>),
              In(Digit), IfaceTail>>),
     post |-> WordB, color |-> CLR_IFACE, bold |-> FALSE]

\* \b((?:tvi|vni|dtvi)-\d[\w/.\-]*)\b
PatVersaIface ==
    [pre |-> WordB,
     grp |-> CatAll(<<AltAll(<<Lit(<<"t","v","i">>), Lit(<<"v","n","i">>), Lit(<<"d","t","v","i">>)>>),
                      Ch("-"), In(Digit), IfaceTail>>),
     post |-> WordB, color |-> CLR_IFACE, bold |-> FALSE]

\* ^\s*(router\s+(?:ospf|bgp)|interface|neighbor|address-family|l2vpn|vlan\s+configuration|member|nv\s+set)\b
PatKeyword ==
    [pre |-> LineStart,
     grp |-> AltAll(<<
                 CatAll(<<Lit(<<"r","o","u","t","e","r">>), Plus(In(Space)),
                          Alt(Lit(<<"o","s","p","f">>), Lit(<<"b","g","p">>))>>),
                 Lit(<<"i","n","t","e","r","f","a","c","e">>),
                 Lit(<<"n","e","i","g","h","b","o","r">>),
                 Lit(<<"a","d","d","r","e","s","s","-","f","a","m","i","l","y">>),
                 Lit(<<"l","2","v","p","n">>),
                 CatAll(<<Lit(<<"v","l","a","n">>), Plus(In(Space)),
                          Lit(<<"c","o","n","f","i","g","u","r","a","t","i","o","n">>)>>),
                 Lit(<<"m","e","m","b","e","r">>),
                 CatAll(<<Lit(<<"n","v">>), Plus(In(Space)), Lit(<<"s","e","t">>)>>)>>),
     post |-> WordB, color |-> CLR_KEYWORD, bold |-> TRUE]

\* ^\s*(set\s+routing-instances|protocols|bridge-domains|bridge-options|policy-options)\b
PatVersaKeyword ==
    [pre |-> LineStart,
     grp |-> AltAll(<<
                 CatAll(<<Lit(<<"s","e","t">>), Plus(In(Space)),
                          Lit(<<"r","o","u","t","i","n","g","-","i","n","s","t","a","n","c","e","s">>)>>),
                 Lit(<<"p","r","o","t","o","c","o","l","s">>),
                 Lit(<<"b","r","i","d","g","e","-","d","o","m","a","i","n","s">>),
                 Lit(<<"b","r","i","d","g","e","-","o","p","t","i","o","n","s">>),
                 Lit(<<"p","o","l","i","c","y","-","o","p","t","i","o","n","s">>)>>),
     post |-> WordB, color |-> CLR_KEYWORD, bold |-> TRUE]

_SH_PATTERNS ==
    <<PatComment, PatPrompt, PatIP, PatMacColon, PatMacDot, PatStatusPos, PatStatusNeg,
      PatVNI, PatIface, PatVersaIface, PatKeyword, PatVersaKeyword>>

(***************************************************************************)
(* re matching of one pattern                                              *)
(***************************************************************************)
\* The spans <<start of group 1, end of group 1, end of the match>> of the
\* matches of p that start at i, in the matcher's order of preference.
RECURSIVE GroupEnds(_, _, _, _, _), PostEnds(_, _, _, _, _, _)
PostEnds(p, s, a, bs, k, acc) ==
    IF k > Len(bs) THEN acc
    ELSE LET cs == Ends(p.post, s, bs[k])
         IN PostEnds(p, s, a, bs, k + 1,
                     acc \o [j \in 1..Len(cs) |-> <<a, bs[k], cs[j]>>])

GroupEnds(p, s, as, k, acc) ==
    IF k > Len(as) THEN acc
    ELSE GroupEnds(p, s, as, k + 1,
                   acc \o PostEnds(p, s, as[k], Ends(p.grp, s, as[k]), 1, <<>>))

MatchesAt(p, s, i) == GroupEnds(p, s, Ends(p.pre, s, i), 1, <<>>)

\* FindIter with the span of the whole match, m.start(0) and m.end(0), in
\* place of that of group 1
RECURSIVE FindIterWholeMatch(_, _, _)
FindIterWholeMatch(p, s, i) ==
    IF i > Len(s) + 1 THEN <<>>
    ELSE LET ms == MatchesAt(p, s, i)
         IN IF ms = <<>> THEN FindIterWholeMatch(p, s, i + 1)
            ELSE LET m == ms[1]
                 IN <<[s |-> i - 1, e |-> m[3] - 1]>>
                    \o FindIterWholeMatch(p, s, IF m[3] = i THEN i + 1 ELSE m[3])

\* pattern.finditer(line): the leftmost match from each position on, the
\* search resuming where the previous match ended (after an empty match, one
\* character further).  Positions are 1-based; spans are returned as the
\* half-open 0-based (start(1), end(1)) of the code.
RECURSIVE FindIter(_, _, _)
FindIter(p, s, i) ==
    IF i > Len(s) + 1 THEN <<>>
    ELSE LET ms == MatchesAt(p, s, i)
         IN IF ms = <<>> THEN FindIter(p, s, i + 1)
            ELSE LET m == ms[1]
                 IN <<[s |-> m[1] - 1, e |-> m[2] - 1]>>
                    \o FindIter(p, s, IF m[3] = i THEN i + 1 ELSE m[3])

(***************************************************************************)
(* colorize_line                                                           *)
(***************************************************************************)
\* line[a:b] of the code: 0-based, half-open
Slice(s, a, b) == SubSeq(s, a + 1, b)

\* line.strip()
Strip(s) ==
    LET keep == {k \in 1..Len(s) : s[k] \notin Space}
    IN IF keep = {} THEN <<>>
       ELSE SubSeq(s, CHOOSE k \in keep : \A j \in keep : k <= j,
                      CHOOSE k \in keep : \A j \in keep : k >= j)

StartsWith(s, c) == Len(s) >= 1 /\ s[1] = c

\* IsCommentLine with the test for '!' left out
IsCommentLineHashOnly(l) == StartsWith(Strip(l), "#")

\* the test of the full-line comment return
IsCommentLine(l) == StartsWith(Strip(l), "#") \/ StartsWith(Strip(l), "!")

\* the (s, e, color, bold) tuples the k-th pattern of the list pats appends to
\* matches; pat, the pattern's position in the list, is kept beside them for
\* stating properties and is read by no operator of the model
PatternMatchesOf(pats, l, k) ==
    LET p == pats[k]
        found == FindIter(p, l, 1)
    IN [j \in 1..Len(found) |->
           [s |-> found[j].s, e |-> found[j].e, color |-> p.color, bold |-> p.bold,
            pat |-> k]]

\* the tuples of the k-th pattern of _SH_PATTERNS
PatternMatches(l, k) == PatternMatchesOf(_SH_PATTERNS, l, k)

\* the loops that fill matches: patterns in list order, each pattern's matches
\* from left to right
RECURSIVE FindAllMatchesOf(_, _, _)
FindAllMatchesOf(pats, l, k) ==
    IF k > Len(pats) THEN <<>>
    ELSE PatternMatchesOf(pats, l, k) \o FindAllMatchesOf(pats, l, k + 1)

FindAllMatches(l, k) == FindAllMatchesOf(_SH_PATTERNS, l, k)

\* m put into the sorted sequence ms after every element whose start is not
\* greater: list.sort is stable
RECURSIVE InsertByStart(_, _)
InsertByStart(ms, m) ==
    IF ms = <<>> THEN <<m>>
    ELSE IF ms[Len(ms)].s <= m.s THEN Append(ms, m)
    ELSE Append(InsertByStart(SubSeq(ms, 1, Len(ms) - 1), m), ms[Len(ms)])

\* SortByStart left out: the candidates stay in pattern-list order
SortByStartMissing(ms) == ms

\* matches.sort(key=lambda x: x[0])
RECURSIVE SortByStart(_)
SortByStart(ms) ==
    IF ms = <<>> THEN <<>>
    ELSE InsertByStart(SortByStart(SubSeq(ms, 1, Len(ms) - 1)), ms[Len(ms)])

\* RemoveOverlaps without the test s >= last_end
RECURSIVE RemoveOverlapsKeepAll(_, _, _)
RemoveOverlapsKeepAll(ms, k, last_end) ==
    IF k > Len(ms) THEN <<>>
    ELSE <<ms[k]>> \o RemoveOverlapsKeepAll(ms, k + 1, ms[k].e)

\* RemoveOverlaps with last_end set to the start of the kept span
RECURSIVE RemoveOverlapsLastStart(_, _, _)
RemoveOverlapsLastStart(ms, k, last_end) ==
    IF k > Len(ms) THEN <<>>
    ELSE IF ms[k].s >= last_end
         THEN <<ms[k]>> \o RemoveOverlapsLastStart(ms, k + 1, ms[k].s)
         ELSE RemoveOverlapsLastStart(ms, k + 1, last_end)

\* RemoveOverlaps with last_end moved by a dropped span too
RECURSIVE RemoveOverlapsAdvancing(_, _, _)
RemoveOverlapsAdvancing(ms, k, last_end) ==
    IF k > Len(ms) THEN <<>>
    ELSE IF ms[k].s >= last_end
         THEN <<ms[k]>> \o RemoveOverlapsAdvancing(ms, k + 1, ms[k].e)
         ELSE RemoveOverlapsAdvancing(ms, k + 1, ms[k].e)

\* RemoveOverlaps that shortens an overlapping span to start at last_end
\* instead of dropping it
RECURSIVE RemoveOverlapsTruncating(_, _, _)
RemoveOverlapsTruncating(ms, k, last_end) ==
    IF k > Len(ms) THEN <<>>
    ELSE IF ms[k].s >= last_end
         THEN <<ms[k]>> \o RemoveOverlapsTruncating(ms, k + 1, ms[k].e)
         ELSE IF ms[k].e > last_end
              THEN <<[ms[k] EXCEPT !.s = last_end]>>
                   \o RemoveOverlapsTruncating(ms, k + 1, ms[k].e)
              ELSE RemoveOverlapsTruncating(ms, k + 1, last_end)

\* RemoveOverlaps with the test s > last_end
RECURSIVE RemoveOverlapsStrict(_, _, _)
RemoveOverlapsStrict(ms, k, last_end) ==
    IF k > Len(ms) THEN <<>>
    ELSE IF ms[k].s > last_end
         THEN <<ms[k]>> \o RemoveOverlapsStrict(ms, k + 1, ms[k].e)
         ELSE RemoveOverlapsStrict(ms, k + 1, last_end)

\* the loop that fills filtered, from the k-th sorted match on
RECURSIVE RemoveOverlaps(_, _, _)
RemoveOverlaps(ms, k, last_end) ==
    IF k > Len(ms) THEN <<>>
    ELSE IF ms[k].s >= last_end
         THEN <<ms[k]>> \o RemoveOverlaps(ms, k + 1, ms[k].e)
         ELSE RemoveOverlaps(ms, k + 1, last_end)

\* A segment is the code's (text, color, bold); lo and hi are the offsets of
\* the line the text was sliced at, kept beside it for stating properties.
Segment(l, lo, hi, color, bold) ==
    [text |-> Slice(l, lo, hi), color |-> color, bold |-> bold, lo |-> lo, hi |-> hi]

\* BuildSegments without the segment for the text after the last kept span
RECURSIVE BuildSegmentsNoTail(_, _, _, _)
BuildSegmentsNoTail(l, fl, k, pos) ==
    IF k > Len(fl) THEN <<>>
    ELSE (IF fl[k].s > pos THEN <<Segment(l, pos, fl[k].s, CLR_DEFAULT, FALSE)>> ELSE <<>>)
         \o <<Segment(l, fl[k].s, fl[k].e, fl[k].color, fl[k].bold)>>
         \o BuildSegmentsNoTail(l, fl, k + 1, fl[k].e)

\* BuildSegments without the test s > pos before the gap segment
RECURSIVE BuildSegmentsAlwaysGap(_, _, _, _)
BuildSegmentsAlwaysGap(l, fl, k, pos) ==
    IF k > Len(fl)
    THEN IF pos < Len(l) THEN <<Segment(l, pos, Len(l), CLR_DEFAULT, FALSE)>> ELSE <<>>
    ELSE <<Segment(l, pos, fl[k].s, CLR_DEFAULT, FALSE)>>
         \o <<Segment(l, fl[k].s, fl[k].e, fl[k].color, fl[k].bold)>>
         \o BuildSegmentsAlwaysGap(l, fl, k + 1, fl[k].e)

\* BuildSegments with the gap before a span given that span's colour and bold flag
RECURSIVE BuildSegmentsGapColored(_, _, _, _)
BuildSegmentsGapColored(l, fl, k, pos) ==
    IF k > Len(fl)
    THEN IF pos < Len(l) THEN <<Segment(l, pos, Len(l), CLR_DEFAULT, FALSE)>> ELSE <<>>
    ELSE (IF fl[k].s > pos THEN <<Segment(l, pos, fl[k].s, fl[k].color, fl[k].bold)>> ELSE <<>>)
         \o <<Segment(l, fl[k].s, fl[k].e, fl[k].color, fl[k].bold)>>
         \o BuildSegmentsGapColored(l, fl, k + 1, fl[k].e)

\* the loop that builds segments from the k-th kept span on, and the tail
\* segment after it
RECURSIVE BuildSegments(_, _, _, _)
BuildSegments(l, fl, k, pos) ==
    IF k > Len(fl)
    THEN IF pos < Len(l) THEN <<Segment(l, pos, Len(l), CLR_DEFAULT, FALSE)>> ELSE <<>>
    ELSE (IF fl[k].s > pos THEN <<Segment(l, pos, fl[k].s, CLR_DEFAULT, FALSE)>> ELSE <<>>)
         \o <<Segment(l, fl[k].s, fl[k].e, fl[k].color, fl[k].bold)>>
         \o BuildSegments(l, fl, k + 1, fl[k].e)

\* OrWholeLine without the replacement of an empty list
OrWholeLineMissing(segs, l) == segs

\* if not segments: segments = [(line, CLR_DEFAULT, False)]
OrWholeLine(segs, l) ==
    IF segs = <<>> THEN <<Segment(l, 0, Len(l), CLR_DEFAULT, FALSE)>> ELSE segs

\* colorize_line(line) when the module's list _SH_PATTERNS holds pats: the
\* value returned (segments) and the locals matches (after the sort) and
\* filtered as they are at the return
colorize_line_in(pats, l) ==
    IF IsCommentLine(l)
    THEN [matches |-> <<>>, filtered |-> <<>>,
          segments |-> <<Segment(l, 0, Len(l), CLR_COMMENT, FALSE)>>]
    ELSE LET ms == SortByStart(FindAllMatchesOf(pats, l, 1))
             fl == RemoveOverlaps(ms, 1, 0)
         IN [matches |-> ms, filtered |-> fl,
             segments |-> OrWholeLine(BuildSegments(l, fl, 1, 0), l)]

colorize_line(l) == colorize_line_in(_SH_PATTERNS, l)

\* DisplayLine without the placeholder
DisplayLineNoPlaceholder(l) == l

\* DisplayLine with the placeholder for the empty line alone
DisplayLineEmptyOnly(l) == IF l # <<>> THEN l ELSE <<NBSP>>

\* display_line = line if line.strip() else ' '
DisplayLine(l) == IF Strip(l) # <<>> THEN l ELSE <<NBSP>>

\* RunsOf with run.bold = True outside the test of the segment's flag
RunsOfAllBold(segs) ==
    [j \in 1..Len(segs) |->
        [text |-> segs[j].text, color |-> segs[j].color, bold |-> TRUE]]

\* the runs add_colored_runs appends to the paragraph, one per segment
RunsOf(segs) ==
    [j \in 1..Len(segs) |->
        [text |-> segs[j].text, color |-> segs[j].color, bold |-> segs[j].bold]]

(***************************************************************************)
(* Input lines                                                             *)
(***************************************************************************)
\* the most tokens a generated line is made of
MaxTokens == 3

Tokens ==
    {<<" ">>, <<"#">>, <<"!">>,
     <<"1",".","1",".","1",".","1">>, <<"4","0","1","1","5","1">>,
     <<"v","n","i","-">>, <<"c","u","m","u","l","u","s","@">>}

RECURSIVE Flatten(_)
Flatten(ts) == IF ts = <<>> THEN <<>> ELSE ts[1] \o Flatten(Tail(ts))

TokenLines == {Flatten(ts) : ts \in UNION {[1..n -> Tokens] : n \in 0..MaxTokens}}

\* lines of the kinds the report's code blocks hold:
\*   'sw1# show ip ospf neighbor'
\*   '12.12.12.1 FULL 1.1.1.3'
\*   'aa:bb:cc:00:24:00 CA 1151'
\*   '# comment with 1.1.1.1 inside'
\*   'swp1'
\*   'GigabitEthernet1/0/3'
\*   '  interface swp1'
\*   'router bgp 65001'
\*   'set routing-instances'
\*   'aabb.cc00.2400 DOWN'
\*   'Up up UP'
\*   'admin@versa-cli> show'
\*   '\t'
\*   'x\n'
\*   'SWP1 INTERFACE'
\*   'DOWN down FULL'
\*   'INTERFACE SW1# Swp1'
\*   'UPx xDOWN'
\*   '50101 1151 4011511'
\*   '\tneighbor 1.1.1.1'
ScenarioLines ==
    {<<"s","w","1","#"," ","s","h","o","w"," ","i","p"," ","o","s","p","f"," ","n","e","i","g","h","b","o","r">>,
     <<"1","2",".","1","2",".","1","2",".","1"," ","F","U","L","L"," ","1",".","1",".","1",".","3">>,
     <<"a","a",":","b","b",":","c","c",":","0","0",":","2","4",":","0","0"," ","C","A"," ","1","1","5","1">>,
     <<"#"," ","c","o","m","m","e","n","t"," ","w","i","t","h"," ","1",".","1",".","1",".","1"," ","i","n","s","i","d","e">>,
     <<"s","w","p","1">>,
     <<"G","i","g","a","b","i","t","E","t","h","e","r","n","e","t","1","/","0","/","3">>,
     <<" "," ","i","n","t","e","r","f","a","c","e"," ","s","w","p","1">>,
     <<"r","o","u","t","e","r"," ","b","g","p"," ","6","5","0","0","1">>,
     <<"s","e","t"," ","r","o","u","t","i","n","g","-","i","n","s","t","a","n","c","e","s">>,
     <<"a","a","b","b",".","c","c","0","0",".","2","4","0","0"," ","D","O","W","N">>,
     <<"U","p"," ","u","p"," ","U","P">>,
     <<"a","d","m","i","n","@","v","e","r","s","a","-","c","l","i",">"," ","s","h","o","w">>,
     <<TAB>>,
     <<"x",NL>>,
     <<"S","W","P","1"," ","I","N","T","E","R","F","A","C","E">>,
     <<"D","O","W","N"," ","d","o","w","n"," ","F","U","L","L">>,
     <<"I","N","T","E","R","F","A","C","E"," ","S","W","1","#"," ","S","w","p","1">>,
     <<"U","P","x"," ","x","D","O","W","N">>,
     <<"5","0","1","0","1"," ","1","1","5","1"," ","4","0","1","1","5","1","1">>,
     <<TAB,"n","e","i","g","h","b","o","r"," ","1",".","1",".","1",".","1">>}

Lines == TokenLines \cup ScenarioLines

(***************************************************************************)
(* The save loop                                                           *)
(***************************************************************************)
\* for suffix in ['_v3', '_v3a', '_v3b']
Suffixes == <<"_v3", "_v3a", "_v3b">>

\* what doc.save(path) does in this run
SaveOutcomes == {"ok", "PermissionError", "OSError"}

\* The file system the run meets: for each candidate, the outcome of saving
\* to it and whether a file of that name exists before the run.
Envs == [DOMAIN Suffixes -> [outcome : SaveOutcomes, exists : BOOLEAN]]

NoPath == "unset"

\* the file system of a run in which nothing is locked
FreeEnv == [k \in DOMAIN Suffixes |-> [outcome |-> "ok", exists |-> FALSE]]

(***************************************************************************)
(* Highlighter: state machine                                              *)
(***************************************************************************)
\* nothing classified or laid out yet
OtherIdle ==
    /\ sh_patterns = _SH_PATTERNS
    /\ history = <<>>
    /\ text = <<>>
    /\ panel_type = "info"
    /\ ret = 0
    /\ sections = <<>>

SaveIdle ==
    /\ env = FreeEnv
    /\ spc = "loop"
    /\ idx = 1
    /\ output_path = NoPath
    /\ attempts = <<>>
    /\ written = {}
    /\ printed = <<>>
    /\ raised = "none"
    /\ topo_exists = FALSE
    /\ body = <<>>
    /\ OtherIdle

HighlightIdle(l) ==
    /\ line = l
    /\ pc = "start"
    /\ display_line = <<>>
    /\ matches = <<>>
    /\ filtered = <<>>
    /\ segments = <<>>
    /\ runs = <<>>

Init == (\E l \in Lines : HighlightIdle(l)) /\ SaveIdle

\* a direct call colorize_line(line)
ColorizeLine ==
    /\ pc = "start"
    /\ LET r == colorize_line(line)
       IN /\ matches' = r.matches
          /\ filtered' = r.filtered
          /\ segments' = r.segments
    /\ pc' = "colorized"
    /\ UNCHANGED <<line, display_line, runs>>
    /\ UNCHANGED svars
    /\ UNCHANGED avars
    /\ UNCHANGED xvars

\* add_colored_runs(paragraph, line)
AddColoredRuns ==
    /\ pc = "start"
    /\ display_line' = DisplayLine(line)
    /\ LET r == colorize_line(DisplayLine(line))
       IN /\ matches' = r.matches
          /\ filtered' = r.filtered
          /\ segments' = r.segments
          /\ runs' = RunsOf(r.segments)
    /\ pc' = "rendered"
    /\ UNCHANGED line
    /\ UNCHANGED svars
    /\ UNCHANGED avars
    /\ UNCHANGED xvars

Next == ColorizeLine \/ AddColoredRuns

Spec == Init /\ [][Next]_vars

(***************************************************************************)
(* A run of calls of colorize_line                                         *)
(***************************************************************************)
\* the most calls of one run
MaxCalls == 3

\* '', '# 1.1.1.1', '1.1.1.1 up', 'sw1# show', 'swp1 DOWN'
SessionLines ==
    {<<>>,
     <<"#"," ","1",".","1",".","1",".","1">>,
     <<"1",".","1",".","1",".","1"," ","u","p">>,
     <<"s","w","1","#"," ","s","h","o","w">>,
     <<"s","w","p","1"," ","D","O","W","N">>}

SessionInit == HighlightIdle(<<>>) /\ SaveIdle

\* ClassifyLine that prunes from the module's list the patterns that found
\* nothing in the line
ClassifyLinePruning ==
    /\ Len(history) < MaxCalls
    /\ \E l \in SessionLines :
          LET r == colorize_line_in(sh_patterns, l)
          IN /\ line' = l
             /\ matches' = r.matches
             /\ filtered' = r.filtered
             /\ segments' = r.segments
             /\ history' = Append(history, [line |-> l, segments |-> r.segments])
             /\ sh_patterns' = SelectSeq(sh_patterns, LAMBDA p : FindIter(p, l, 1) # <<>>)
    /\ pc' = "colorized"
    /\ UNCHANGED <<display_line, runs, text, panel_type, ret, sections>>
    /\ UNCHANGED svars
    /\ UNCHANGED avars

\* one more call colorize_line(line) of the run; the function reads the
\* module's list and assigns to its locals only.  history records the calls.
ClassifyLine ==
    /\ Len(history) < MaxCalls
    /\ \E l \in SessionLines :
          LET r == colorize_line_in(sh_patterns, l)
          IN /\ line' = l
             /\ matches' = r.matches
             /\ filtered' = r.filtered
             /\ segments' = r.segments
             /\ history' = Append(history, [line |-> l, segments |-> r.segments])
    /\ pc' = "colorized"
    /\ UNCHANGED <<sh_patterns, display_line, runs, text, panel_type, ret, sections>>
    /\ UNCHANGED svars
    /\ UNCHANGED avars

SessionNext == ClassifyLine

SessionSpec == SessionInit /\ [][SessionNext]_vars

(***************************************************************************)
(* Save loop: state machine                                                *)
(***************************************************************************)
SaveInit ==
    /\ HighlightIdle(<<>>)
    /\ env \in Envs
    /\ spc = "loop"
    /\ idx = 1
    /\ output_path = NoPath
    /\ attempts = <<>>
    /\ written = {}
    /\ printed = <<>>
    /\ raised = "none"
    /\ topo_exists = FALSE
    /\ body = <<>>
    /\ OtherIdle

\* SaveAttempt without the break after a save that succeeded
SaveAttemptNoBreak ==
    /\ spc = "loop"
    /\ LET path == Suffixes[idx]
           outcome == env[idx].outcome
       IN /\ output_path' = path
          /\ attempts' = Append(attempts, [path |-> path, outcome |-> outcome])
          /\ CASE outcome \in {"ok", "PermissionError"} ->
                    /\ written' = IF outcome = "ok" THEN written \cup {path} ELSE written
                    /\ IF idx < Len(Suffixes)
                       THEN idx' = idx + 1 /\ spc' = "loop"
                       ELSE idx' = idx /\ spc' = "print_path"
                    /\ UNCHANGED raised
               [] OTHER ->
                    /\ raised' = outcome
                    /\ spc' = "aborted"
                    /\ UNCHANGED <<idx, written>>
    /\ UNCHANGED <<env, printed>>
    /\ UNCHANGED hvars
    /\ UNCHANGED avars
    /\ UNCHANGED xvars

\* SaveAttempt with every exception of doc.save caught, not PermissionError alone
SaveAttemptCatchAll ==
    /\ spc = "loop"
    /\ LET path == Suffixes[idx]
           outcome == env[idx].outcome
       IN /\ output_path' = path
          /\ attempts' = Append(attempts, [path |-> path, outcome |-> outcome])
          /\ CASE outcome = "ok" ->
                    /\ written' = written \cup {path}
                    /\ spc' = "print_path"
                    /\ UNCHANGED <<idx, raised>>
               [] OTHER ->
                    /\ IF idx < Len(Suffixes)
                       THEN idx' = idx + 1 /\ spc' = "loop"
                       ELSE idx' = idx /\ spc' = "print_path"
                    /\ UNCHANGED <<written, raised>>
    /\ UNCHANGED <<env, printed>>
    /\ UNCHANGED hvars
    /\ UNCHANGED avars
    /\ UNCHANGED xvars

\* one iteration of the for loop: doc.save(output_path), then break, continue
\* or the exception leaving the loop
SaveAttempt ==
    /\ spc = "loop"
    /\ LET path == Suffixes[idx]
           outcome == env[idx].outcome
       IN /\ output_path' = path
          /\ attempts' = Append(attempts, [path |-> path, outcome |-> outcome])
          /\ CASE outcome = "ok" ->
                    /\ written' = written \cup {path}
                    /\ spc' = "print_path"
                    /\ UNCHANGED <<idx, raised>>
               [] outcome = "PermissionError" ->
                    /\ IF idx < Len(Suffixes)
                       THEN idx' = idx + 1 /\ spc' = "loop"
                       ELSE idx' = idx /\ spc' = "print_path"
                    /\ UNCHANGED <<written, raised>>
               [] OTHER ->
                    /\ raised' = outcome
                    /\ spc' = "aborted"
                    /\ UNCHANGED <<idx, written>>
    /\ UNCHANGED <<env, printed>>
    /\ UNCHANGED hvars
    /\ UNCHANGED avars
    /\ UNCHANGED xvars

\* print(f'Word document saved: {output_path}')
PrintSaved ==
    /\ spc = "print_path"
    /\ printed' = Append(printed, [msg |-> "saved", path |-> output_path])
    /\ spc' = "print_size"
    /\ UNCHANGED <<env, idx, output_path, attempts, written, raised>>
    /\ UNCHANGED hvars
    /\ UNCHANGED avars
    /\ UNCHANGED xvars

\* whether a file of that name is on disk
FileExists(path) ==
    \/ path \in written
    \/ \E k \in DOMAIN Suffixes : Suffixes[k] = path /\ env[k].exists

\* print(f'Size: {os.path.getsize(output_path):,} bytes')
PrintSize ==
    /\ spc = "print_size"
    /\ IF FileExists(output_path)
       THEN /\ printed' = Append(printed, [msg |-> "size", path |-> output_path])
            /\ spc' = "done"
            /\ UNCHANGED raised
       ELSE /\ raised' = "FileNotFoundError"
            /\ spc' = "aborted"
            /\ UNCHANGED printed
    /\ UNCHANGED <<env, idx, output_path, attempts, written>>
    /\ UNCHANGED hvars
    /\ UNCHANGED avars
    /\ UNCHANGED xvars

SaveNext == SaveAttempt \/ PrintSaved \/ PrintSize

SaveSpec == SaveInit /\ [][SaveNext]_vars

(***************************************************************************)
(* The topology section, then the save step                                *)
(***************************************************************************)
\* doc.add_heading('2. Topology', level=2)
Heading == [kind |-> "heading", text |-> "2. Topology", align |-> "default"]

\* doc.add_picture(topo_path, width=Inches(6.5)), its paragraph centred
Picture == [kind |-> "picture", text |-> "topology-for-docx.png", align |-> "center"]

\* doc.add_paragraph('[Topology diagram - see diagrams/topology.svg]')
Placeholder ==
    [kind |-> "paragraph", text |-> "[Topology diagram - see diagrams/topology.svg]",
     align |-> "default"]

\* the centred paragraph after the image or the placeholder
Caption ==
    [kind |-> "paragraph",
     text |-> "All four leaf VTEPs connected to sw1 spine. VXLAN full-mesh tunnels overlay. Cisco (with SGT) and Versa send VXLAN-GBP headers.",
     align |-> "center"]

\* the script before the topology section, with any file system
AssembleInit ==
    /\ HighlightIdle(<<>>)
    /\ env \in Envs
    /\ topo_exists \in BOOLEAN
    /\ body = <<>>
    /\ spc = "heading"
    /\ idx = 1
    /\ output_path = NoPath
    /\ attempts = <<>>
    /\ written = {}
    /\ printed = <<>>
    /\ raised = "none"
    /\ OtherIdle

AddHeading ==
    /\ spc = "heading"
    /\ body' = Append(body, Heading)
    /\ spc' = "topology"
    /\ UNCHANGED <<env, idx, output_path, attempts, written, printed, raised, topo_exists>>
    /\ UNCHANGED hvars
    /\ UNCHANGED xvars

\* AddTopologyImage without the test os.path.exists(topo_path)
AddTopologyImageNoFallback ==
    /\ spc = "topology"
    /\ IF topo_exists
       THEN body' = Append(body, Picture) /\ spc' = "caption" /\ UNCHANGED raised
       ELSE raised' = "FileNotFoundError" /\ spc' = "aborted" /\ UNCHANGED body
    /\ UNCHANGED <<env, idx, output_path, attempts, written, printed, topo_exists>>
    /\ UNCHANGED hvars
    /\ UNCHANGED xvars

\* if os.path.exists(topo_path): the picture, else: the placeholder paragraph
AddTopologyImage ==
    /\ spc = "topology"
    /\ body' = Append(body, IF topo_exists THEN Picture ELSE Placeholder)
    /\ spc' = "caption"
    /\ UNCHANGED <<env, idx, output_path, attempts, written, printed, raised, topo_exists>>
    /\ UNCHANGED hvars
    /\ UNCHANGED xvars

AddCaption ==
    /\ spc = "caption"
    /\ body' = Append(body, Caption)
    /\ spc' = "loop"
    /\ UNCHANGED <<env, idx, output_path, attempts, written, printed, raised, topo_exists>>
    /\ UNCHANGED hvars
    /\ UNCHANGED xvars

AssembleNext ==
    AddHeading \/ AddTopologyImage \/ AddCaption \/ SaveAttempt \/ PrintSaved \/ PrintSize

AssembleSpec == AssembleInit /\ [][AssembleNext]_vars

(***************************************************************************)
(* Text clean-up shared by add_code_block and add_panel                    *)
(***************************************************************************)
\* the em dash
MDASH == "MDASH"
\* U+200B, the zero-width space
ZWSP == "ZWSP"

\* <[^>]+>
TagRe == CatAll(<<Ch("<"), Plus(NotIn({">"})), Ch(">")>>)

\* the characters of s from position k on that lie in none of the spans
RECURSIVE Outside(_, _, _)
Outside(s, spans, k) ==
    IF k > Len(s) THEN <<>>
    ELSE (IF \E j \in 1..Len(spans) : spans[j].s < k /\ k <= spans[j].e
          THEN <<>> ELSE <<s[k]>>)
         \o Outside(s, spans, k + 1)

\* re.sub(r, '', s): the matches of r, found as finditer finds them, removed
ReSubEmpty(r, s) ==
    Outside(s, FindIter([pre |-> Eps, grp |-> r, post |-> Eps], s, 1), 1)

\* s.replace(from, to): occurrences from left to right, not overlapping
RECURSIVE Replace(_, _, _)
Replace(s, from, to) ==
    IF s = <<>> THEN <<>>
    ELSE IF LitAt(from, s, 1)
         THEN to \o Replace(SubSeq(s, Len(from) + 1, Len(s)), from, to)
         ELSE <<s[1]>> \o Replace(Tail(s), from, to)

\* Split that gives no line for the empty text, as str.splitlines() does
SplitNoneForEmpty(s, sep) ==
    LET RECURSIVE Parts(_)
        Parts(t) ==
            IF \A k \in 1..Len(t) : t[k] # sep THEN <<t>>
            ELSE LET k == CHOOSE k \in 1..Len(t) :
                              t[k] = sep /\ \A j \in 1..(k - 1) : t[j] # sep
                 IN <<SubSeq(t, 1, k - 1)>> \o Parts(SubSeq(t, k + 1, Len(t)))
    IN IF s = <<>> THEN <<>> ELSE Parts(s)

\* s.split(sep) for a separator of one character
RECURSIVE Split(_, _)
Split(s, sep) ==
    IF \A k \in 1..Len(s) : s[k] # sep THEN <<s>>
    ELSE LET k == CHOOSE k \in 1..Len(s) : s[k] = sep /\ \A j \in 1..(k - 1) : s[j] # sep
         IN <<SubSeq(s, 1, k - 1)>> \o Split(SubSeq(s, k + 1, Len(s)), sep)

(***************************************************************************)
(* add_code_block                                                          *)
(***************************************************************************)
\* the local clean of add_code_block at the split
clean(t) ==
    LET c1 == ReSubEmpty(TagRe, t)
        c2 == Replace(c1, <<"&","l","t",";">>, <<"<">>)
        c3 == Replace(c2, <<"&","g","t",";">>, <<">">>)
        c4 == Replace(c3, <<"&","a","m","p",";">>, <<"&">>)
        c5 == Replace(c4, <<"&","h","a","r","r",";">>, <<"<","-",">">>)
        c6 == Replace(c5, <<"&","m","d","a","s","h",";">>, <<MDASH>>)
        c7 == Replace(c6, <<"&","r","a","r","r",";">>, <<"-",">">>)
        c8 == Replace(c7, <<"&","l","a","r","r",";">>, <<"<","-">>)
        c9 == Replace(c8, <<"[">>, <<"[", ZWSP>>)
    IN Strip(c9)

\* the paragraph of the i-th of the lines: style, spacing in points, shading
\* and the runs add_colored_runs gives it
CodeParagraph(lines, i) ==
    [kind |-> "paragraph", style |-> "CodeBlock",
     space_before |-> IF i = 1 THEN 4 ELSE 0,
     space_after |-> IF i = Len(lines) THEN 4 ELSE 0,
     fill |-> "F4F5F7",
     runs |-> RunsOf(colorize_line_in(sh_patterns, DisplayLine(lines[i])).segments)]

\* the most parts a text given to add_code_block or add_panel is made of
MaxParts == 3

\* 'up', a newline, a blank, a tag, an entity, a bracket
BlockParts ==
    {<<"u","p">>, <<NL>>, <<" ">>, <<"<","b",">">>, <<"&","l","t",";">>, <<"[">>}

\* '<b>up</b>\n\n&lt;1.1.1.1&gt; [x]': three lines, the second empty
ScenarioTexts ==
    {<<"<","b",">","u","p","<","/","b",">",NL,NL,
       "&","l","t",";","1",".","1",".","1",".","1","&","g","t",";"," ","[","x","]">>}

BlockTexts ==
    {Flatten(ts) : ts \in UNION {[1..n -> BlockParts] : n \in 0..MaxParts}}
    \cup ScenarioTexts

\* a document, empty or not, and a text to add as a code block
BlockInit ==
    /\ HighlightIdle(<<>>)
    /\ env = FreeEnv
    /\ spc = "loop"
    /\ idx = 1
    /\ output_path = NoPath
    /\ attempts = <<>>
    /\ written = {}
    /\ printed = <<>>
    /\ raised = "none"
    /\ topo_exists = FALSE
    /\ body \in {<<>>, <<Heading>>}
    /\ sh_patterns = _SH_PATTERNS
    /\ history = <<>>
    /\ text \in BlockTexts
    /\ panel_type = "info"
    /\ ret = 0
    /\ sections = <<>>

\* add_code_block(text); ret is the place in the body of the paragraph
\* returned, 0 for None
AddCodeBlock ==
    /\ pc = "start"
    /\ LET lines == Split(clean(text), NL)
       IN /\ body' = body \o [i \in 1..Len(lines) |-> CodeParagraph(lines, i)]
          /\ ret' = IF lines = <<>> THEN 0 ELSE Len(body) + 1
    /\ pc' = "block"
    /\ UNCHANGED <<line, display_line, matches, filtered, segments, runs>>
    /\ UNCHANGED svars
    /\ UNCHANGED <<topo_exists, sh_patterns, history, text, panel_type, sections>>

BlockNext == AddCodeBlock

BlockSpec == BlockInit /\ [][BlockNext]_vars

(***************************************************************************)
(* Page setup and the section switches                                     *)
(***************************************************************************)
\* Cm(n / 10) in English Metric Units
Mm(n) == n * 36000

\* the page of the template Document() opens: US Letter or A4, upright
PageSizes ==
    {[w |-> 7772400, h |-> 10058400], [w |-> 7560310, h |-> 10692130]}

\* the one section of the new document, with the template's margins
TemplateSection(page) ==
    [orientation |-> "portrait", page_width |-> page.w, page_height |-> page.h,
     top_margin |-> 914400, bottom_margin |-> 914400,
     left_margin |-> 1143000, right_margin |-> 1143000]

\* doc = Document(), before the page setup, with any file system
LayoutInit ==
    /\ HighlightIdle(<<>>)
    /\ env \in Envs
    /\ spc = "setup"
    /\ idx = 1
    /\ output_path = NoPath
    /\ attempts = <<>>
    /\ written = {}
    /\ printed = <<>>
    /\ raised = "none"
    /\ topo_exists = FALSE
    /\ body = <<>>
    /\ sh_patterns = _SH_PATTERNS
    /\ history = <<>>
    /\ text = <<>>
    /\ panel_type = "info"
    /\ ret = 0
    /\ \E page \in PageSizes : sections = <<TemplateSection(page)>>

\* for section in doc.sections: the four margins
PageSetup ==
    /\ spc = "setup"
    /\ sections' = [k \in 1..Len(sections) |->
                       [sections[k] EXCEPT !.top_margin = Mm(20), !.bottom_margin = Mm(20),
                                           !.left_margin = Mm(25), !.right_margin = Mm(25)]]
    /\ spc' = "add_landscape"
    /\ UNCHANGED <<env, idx, output_path, attempts, written, printed, raised>>
    /\ UNCHANGED hvars
    /\ UNCHANGED avars
    /\ UNCHANGED <<sh_patterns, history, text, panel_type, ret>>

\* doc.add_section(): the new last section starts as a copy of the previous one
NewSection == sections[Len(sections)]

\* landscape_section = doc.add_section() and the assignments to it
AddLandscapeSection ==
    /\ spc = "add_landscape"
    /\ LET sec == NewSection
           new_w == sec.page_height
           new_h == sec.page_width
       IN sections' = Append(sections,
              [sec EXCEPT !.orientation = "landscape",
                          !.page_width = new_w, !.page_height = new_h,
                          !.top_margin = Mm(20), !.bottom_margin = Mm(20),
                          !.left_margin = Mm(20), !.right_margin = Mm(20)])
    /\ spc' = "add_portrait"
    /\ UNCHANGED <<env, idx, output_path, attempts, written, printed, raised>>
    /\ UNCHANGED hvars
    /\ UNCHANGED avars
    /\ UNCHANGED <<sh_patterns, history, text, panel_type, ret>>

\* AddPortraitSection without the exchange of page_width and page_height
AddPortraitSectionNoSwap ==
    /\ spc = "add_portrait"
    /\ LET sec == NewSection
       IN sections' = Append(sections,
              [sec EXCEPT !.orientation = "portrait",
                          !.top_margin = Mm(20), !.bottom_margin = Mm(20),
                          !.left_margin = Mm(25), !.right_margin = Mm(25)])
    /\ spc' = "loop"
    /\ UNCHANGED <<env, idx, output_path, attempts, written, printed, raised>>
    /\ UNCHANGED hvars
    /\ UNCHANGED avars
    /\ UNCHANGED <<sh_patterns, history, text, panel_type, ret>>

\* portrait_section = doc.add_section() and the assignments to it
AddPortraitSection ==
    /\ spc = "add_portrait"
    /\ LET sec == NewSection
           new_w == sec.page_height
           new_h == sec.page_width
       IN sections' = Append(sections,
              [sec EXCEPT !.orientation = "portrait",
                          !.page_width = new_w, !.page_height = new_h,
                          !.top_margin = Mm(20), !.bottom_margin = Mm(20),
                          !.left_margin = Mm(25), !.right_margin = Mm(25)])
    /\ spc' = "loop"
    /\ UNCHANGED <<env, idx, output_path, attempts, written, printed, raised>>
    /\ UNCHANGED hvars
    /\ UNCHANGED avars
    /\ UNCHANGED <<sh_patterns, history, text, panel_type, ret>>

LayoutNext ==
    \/ PageSetup
    \/ AddLandscapeSection
    \/ AddPortraitSection
    \/ SaveAttempt
    \/ PrintSaved
    \/ PrintSize

LayoutSpec == LayoutInit /\ [][LayoutNext]_vars

(***************************************************************************)
(* add_panel                                                               *)
(***************************************************************************)
\* the dictionary colors: accent, background, label
colors ==
    [info |-> [accent |-> "0052CC", bg |-> "DEEBFF", label |-> <<"I","n","f","o","r","m","a","t","i","o","n">>],
     success |-> [accent |-> "00875A", bg |-> "E3FCEF", label |-> <<"S","t","a","t","u","s">>],
     warning |-> [accent |-> "FF991F", bg |-> "FFFAE6", label |-> <<"W","a","r","n","i","n","g">>],
     error |-> [accent |-> "DE350B", bg |-> "FFEBE6", label |-> <<"A","l","e","r","t">>]]

\* PanelStyle that falls back to the 'error' entry
PanelStyleFallbackError(pt) == IF pt \in DOMAIN colors THEN colors[pt] ELSE colors["error"]

\* colors.get(panel_type, colors['info'])
PanelStyle(pt) == IF pt \in DOMAIN colors THEN colors[pt] ELSE colors["info"]

StrongOpen == <<"<","s","t","r","o","n","g",">">>
StrongClose == <<"<","/","s","t","r","o","n","g",">">>

\* <strong>(.*?)</strong>
StrongRe == [pre |-> Lit(StrongOpen), grp |-> LazyStar(Dot), post |-> Lit(StrongClose)]

\* <strong>.*?</strong>\s*
StrongBlockRe ==
    CatAll(<<Lit(StrongOpen), LazyStar(Dot), Lit(StrongClose), Star(In(Space))>>)

\* title = bold_match.group(1) if bold_match else label
PanelTitle(t, label) ==
    LET found == FindIter(StrongRe, t, 1)
    IN IF found # <<>> THEN Slice(t, found[1].s, found[1].e) ELSE label

\* the local body of add_panel
PanelBody(t) ==
    LET b1 == ReSubEmpty(StrongBlockRe, t)
        b2 == ReSubEmpty(TagRe, b1)
        b3 == Replace(b2, <<"&","l","t",";">>, <<"<">>)
        b4 == Replace(b3, <<"&","g","t",";">>, <<">">>)
        b5 == Replace(b4, <<"&","m","d","a","s","h",";">>, <<MDASH>>)
        b6 == Replace(b5, <<"&","h","a","r","r",";">>, <<"<","-",">">>)
    IN Strip(b6)

\* the paragraph of the panel: shading, spacing in points, run_title, run_body
PanelParagraph(t, pt) ==
    LET style == PanelStyle(pt)
    IN [kind |-> "paragraph", fill |-> style.bg, space_before |-> 6, space_after |-> 6,
        runs |-> <<[text |-> PanelTitle(t, style.label) \o <<":", " ">>,
                    color |-> style.accent, bold |-> TRUE],
                   [text |-> PanelBody(t), color |-> "172B4D", bold |-> FALSE]>>]

\* the four panel types of the dictionary, and two that are not in it
PanelTypes == {"info", "success", "warning", "error", "note", "INFO"}

PanelParts ==
    {StrongOpen, StrongClose, <<"a">>, <<" ">>, <<NL>>, <<"&","l","t",";">>}

PanelTexts == {Flatten(ts) : ts \in UNION {[1..n -> PanelParts] : n \in 0..MaxParts}}

\* a document and a text to add as a panel of some type
PanelInit ==
    /\ HighlightIdle(<<>>)
    /\ env = FreeEnv
    /\ spc = "loop"
    /\ idx = 1
    /\ output_path = NoPath
    /\ attempts = <<>>
    /\ written = {}
    /\ printed = <<>>
    /\ raised = "none"
    /\ topo_exists = FALSE
    /\ body = <<>>
    /\ sh_patterns = _SH_PATTERNS
    /\ history = <<>>
    /\ text \in PanelTexts
    /\ panel_type \in PanelTypes
    /\ ret = 0
    /\ sections = <<>>

\* add_panel(text, panel_type); ret is the place in the body of the paragraph
\* returned
AddPanel ==
    /\ pc = "start"
    /\ body' = Append(body, PanelParagraph(text, panel_type))
    /\ ret' = Len(body) + 1
    /\ pc' = "panel"
    /\ UNCHANGED <<line, display_line, matches, filtered, segments, runs>>
    /\ UNCHANGED svars
    /\ UNCHANGED <<topo_exists, sh_patterns, history, text, panel_type, sections>>

PanelNext == AddPanel

PanelSpec == PanelInit /\ [][PanelNext]_vars

(***************************************************************************)
(* Properties                                                              *)
(***************************************************************************)
\* colorize_line has returned
Returned == pc \in {"colorized", "rendered"}

\* the line colorize_line was called with
Input == IF pc = "rendered" THEN display_line ELSE line

RECURSIVE ConcatTexts(_)
ConcatTexts(segs) == IF segs = <<>> THEN <<>> ELSE segs[1].text \o ConcatTexts(Tail(segs))

\* a segment as the code's tuple (text, color, bold)
Triple(seg) == <<seg.text, seg.color, seg.bold>>

\* the line's trimmed form starts with c: c is its first character that is
\* not white space
TrimmedStartsWith(l, c) ==
    \E k \in 1..Len(l) : l[k] = c /\ \A j \in 1..(k - 1) : l[j] \in Space

CommentInput == TrimmedStartsWith(Input, "#") \/ TrimmedStartsWith(Input, "!")

\* two half-open spans share a character
Overlap(a, b) == a.s < b.e /\ b.s < a.e

\* the candidate spans that were kept
Kept(m) == \E j \in 1..Len(filtered) : filtered[j] = m

\* C1: the texts of the segments colorize_line returns, concatenated in
\* order, are the input line, for every line (empty and white-space-only
\* lines and lines without a match included).
C1_Reconstruction == Returned => ConcatTexts(segments) = Input

C1_Witness ==
    /\ pc = "colorized"
    /\ Len(filtered) >= 2
    /\ Len(segments) > Len(filtered)
    /\ segments[Len(segments)].color = CLR_DEFAULT

\* C2 as claimed: of two overlapping candidate spans of different patterns,
\* the span of the pattern later in _SH_PATTERNS is dropped.
C2_PriorityOnOverlap ==
    Returned =>
        \A i, j \in 1..Len(matches) :
            (matches[i].pat < matches[j].pat /\ Overlap(matches[i], matches[j]))
                => ~Kept(matches[j])

\* C2 as amended: overlap is decided by the scan order, not by the list order:
\* of two overlapping candidate spans at most one is kept, and a kept span
\* makes every overlapping span after it in the scan (greater start offset, or
\* equal start and later in the list) dropped, whichever pattern is earlier in
\* the list.
C2_ScanOrderOnOverlap ==
    Returned =>
        \A i, j \in 1..Len(matches) :
            (i < j /\ Overlap(matches[i], matches[j]) /\ Kept(matches[i]))
                => /\ ~Kept(matches[j])
                   /\ matches[i].s <= matches[j].s

\* the interface-name span of vni-401151 is kept and the VNI span of 401151,
\* of a pattern earlier in the list, is dropped
C2_Witness ==
    /\ pc = "colorized"
    /\ line = <<"v","n","i","-","4","0","1","1","5","1">>
    /\ \E i, j \in 1..Len(matches) :
          /\ matches[i].color = CLR_IFACE /\ matches[j].color = CLR_VNI
          /\ matches[j].pat < matches[i].pat
          /\ Overlap(matches[i], matches[j])
          /\ Kept(matches[i]) /\ ~Kept(matches[j])

\* C5: the segments occupy consecutive half-open ranges of the line, the first
\* from offset 0, each next from where the previous one ends, the last to
\* len(line), and each segment's text is the line's text in its range.
C5_Coverage ==
    Returned =>
        /\ Len(segments) >= 1
        /\ segments[1].lo = 0
        /\ segments[Len(segments)].hi = Len(Input)
        /\ \A j \in 1..Len(segments) :
              /\ segments[j].lo <= segments[j].hi
              /\ segments[j].text = Slice(Input, segments[j].lo, segments[j].hi)
        /\ \A j \in 1..(Len(segments) - 1) : segments[j + 1].lo = segments[j].hi

\* a span was dropped because it overlaps a kept one, and the line is covered
C5_Witness ==
    /\ pc = "colorized"
    /\ Len(matches) > Len(filtered)
    /\ Len(segments) >= 3

\* C6: a line whose trimmed form starts with '#' or '!' gives one segment, the
\* whole untrimmed line, comment-coloured and not bold, and no pattern is
\* applied, whatever the line holds.
C6_CommentPrecedence ==
    (Returned /\ CommentInput) =>
        /\ Len(segments) = 1
        /\ Triple(segments[1]) = <<Input, CLR_COMMENT, FALSE>>
        /\ matches = <<>>
        /\ filtered = <<>>

\* ' !1.1.1.1': white space, '!', then an IP address
C6_Witness ==
    /\ pc = "colorized"
    /\ line = <<" ", "!", "1",".","1",".","1",".","1">>
    /\ Len(segments) = 1

\* the positions of the sorted candidates that were kept
KeptPositions == {k \in 1..Len(matches) : Kept(matches[k])}

\* the end of the most recently kept span before position k, 0 if there is none
BoundaryBefore(k) ==
    LET before == {j \in KeptPositions : j < k}
    IN IF before = {} THEN 0
       ELSE matches[CHOOSE j \in before : \A i \in before : i <= j].e

\* C7: the candidates are scanned in ascending start offset; a span is kept if
\* and only if it starts at or after the end of the most recently kept span (0
\* before any is kept); a dropped span does not move that boundary.
C7_OverlapScan ==
    (Returned /\ ~CommentInput) =>
        /\ \A i, j \in 1..Len(matches) : i < j => matches[i].s <= matches[j].s
        /\ \A k \in 1..Len(matches) :
              (k \in KeptPositions) <=> (matches[k].s >= BoundaryBefore(k))
        /\ Len(filtered) = Cardinality(KeptPositions)
        /\ \A i, j \in 1..Len(filtered) : i < j => filtered[i].s < filtered[j].s

\* a span that overlaps only a dropped span is kept
C7_Witness ==
    /\ pc = "colorized"
    /\ \E i, j, k \in 1..Len(matches) :
          /\ i < j /\ j < k
          /\ Kept(matches[i]) /\ ~Kept(matches[j]) /\ Kept(matches[k])
          /\ Overlap(matches[j], matches[k])
          /\ ~Overlap(matches[i], matches[k])

\* the candidate spans a segment is, in full
SpansOf(seg) ==
    {k \in 1..Len(matches) :
        /\ matches[k].s = seg.lo /\ matches[k].e = seg.hi
        /\ matches[k].color = seg.color /\ matches[k].bold = seg.bold}

\* C8: every segment that is not default-coloured is exactly one candidate span
\* in full (same start, end, colour and bold flag), and a candidate span is
\* emitted whole or not at all: no segment is a shortened candidate.  (The one
\* segment of a full-line comment is the whole line.)
C8_NoTruncation ==
    Returned =>
        IF CommentInput
        THEN \A j \in 1..Len(segments) :
                 segments[j].lo = 0 /\ segments[j].hi = Len(Input)
        ELSE /\ \A j \in 1..Len(segments) :
                    segments[j].color # CLR_DEFAULT
                        => /\ Cardinality(SpansOf(segments[j])) = 1
                           /\ \A k \in SpansOf(segments[j]) : Kept(matches[k])
             /\ \A k \in 1..Len(matches) :
                    IF Kept(matches[k])
                    THEN \E j \in 1..Len(segments) : k \in SpansOf(segments[j])
                    ELSE \A j \in 1..Len(segments) :
                             segments[j].color = CLR_DEFAULT \/ k \notin SpansOf(segments[j])

\* a span is dropped although part of it lies outside the kept span it overlaps
C8_Witness ==
    /\ pc = "colorized"
    /\ \E i, j \in 1..Len(matches) :
          /\ Kept(matches[i]) /\ ~Kept(matches[j])
          /\ Overlap(matches[i], matches[j])
          /\ matches[j].e > matches[i].e

\* C9: colorize_line returns a non-empty list for every line; when no pattern
\* matches, the list is one segment, the whole line in the default colour, not
\* bold.
C9_Totality ==
    Returned =>
        /\ Len(segments) >= 1
        /\ (matches = <<>> /\ ~CommentInput)
              => /\ Len(segments) = 1
                 /\ Triple(segments[1]) = <<Input, CLR_DEFAULT, FALSE>>

\* the empty line: no pattern matches and no text is left to emit
C9_Witness ==
    /\ pc = "colorized"
    /\ line = <<>>
    /\ Len(segments) = 1

Succeeded == {attempts[k].path : k \in {j \in 1..Len(attempts) : attempts[j].outcome = "ok"}}

\* C3 as claimed: the save step completes only after exactly one doc.save of
\* this run succeeded, and prints a saved path only then; otherwise an
\* exception ends the run.
C3_SaveOutcome ==
    /\ spc = "done" => (Cardinality(written) = 1 /\ raised = "none")
    /\ printed # <<>> => Cardinality(Succeeded) = 1
    /\ spc = "aborted" => raised # "none"

\* C4: the candidates are attempted in the order _v3, _v3a, _v3b; a candidate
\* is attempted only after the save of the one before it raised
\* PermissionError; after a save that succeeded none is attempted, so at most
\* one file is written, and the path printed is that of the save that
\* succeeded.
C4_SaveOrdering ==
    /\ Len(attempts) <= Len(Suffixes)
    /\ \A k \in 1..Len(attempts) : attempts[k].path = Suffixes[k]
    /\ \A k \in 1..(Len(attempts) - 1) : attempts[k].outcome = "PermissionError"
    /\ written = Succeeded
    /\ Cardinality(written) <= 1
    /\ \A k \in 1..Len(attempts) :
          attempts[k].outcome = "ok" => (k = Len(attempts) /\ spc # "loop")
    /\ (written # {} /\ spc \in {"print_size", "done"})
          => (printed # <<>> /\ \A j \in 1..Len(printed) : printed[j].path \in written)

\* _v3 is locked, _v3a is saved and its path and size are printed
C4_Witness ==
    /\ spc = "done"
    /\ Len(attempts) = 2
    /\ attempts[1].outcome = "PermissionError"
    /\ written = {Suffixes[2]}
    /\ Len(printed) = 2

\* C11: for a non-empty line every segment colorize_line returns has a text of
\* at least one character: no pattern contributes an empty span and no empty
\* gap segment is emitted; a segment with an empty text is returned for the
\* empty line only.
C11_NoEmptySegments ==
    Returned =>
        /\ \A k \in 1..Len(matches) : matches[k].s < matches[k].e
        /\ Input # <<>> => \A j \in 1..Len(segments) : Len(segments[j].text) >= 1
        /\ (\E j \in 1..Len(segments) : segments[j].text = <<>>) => Input = <<>>

\* kept spans that touch each other and the ends of the line: every gap is empty
C11_Witness ==
    /\ pc = "colorized"
    /\ Len(filtered) >= 2
    /\ Len(segments) = Len(filtered)
    /\ filtered[1].s = 0
    /\ filtered[Len(filtered)].e = Len(line)

\* the text of a candidate span
SpanText(m) == Slice(Input, m.s, m.e)

\* C12: the span of a candidate is the range of group 1 of its match, not that
\* of the whole match: the span is itself a match of the group's expression;
\* the span of a line-start keyword begins after the white space ^\s* matched,
\* which is returned as a default-coloured segment before the keyword segment.
C12_GroupSpan ==
    (Returned /\ ~CommentInput) =>
        \A k \in 1..Len(matches) :
            LET m == matches[k]
            IN /\ \E j \in DOMAIN Ends(_SH_PATTERNS[m.pat].grp, Input, m.s + 1) :
                     Ends(_SH_PATTERNS[m.pat].grp, Input, m.s + 1)[j] = m.e + 1
               /\ m.color = CLR_KEYWORD =>
                     /\ \A i \in 1..m.s : Input[i] \in Space
                     /\ Input[m.s + 1] \notin Space
                     /\ Kept(m)
                     /\ m.s > 0 =>
                           /\ Len(segments) >= 2
                           /\ Triple(segments[1]) = <<Slice(Input, 0, m.s), CLR_DEFAULT, FALSE>>
                           /\ Triple(segments[2]) = <<SpanText(m), CLR_KEYWORD, TRUE>>

\* '  interface swp1': two blanks, default-coloured, then the keyword
C12_Witness ==
    /\ pc = "colorized"
    /\ line = <<" "," ","i","n","t","e","r","f","a","c","e"," ","s","w","p","1">>
    /\ Len(segments) = 4
    /\ Triple(segments[1]) = <<(<<" ", " ">>), CLR_DEFAULT, FALSE>>
    /\ Triple(segments[2]) = <<(<<"i","n","t","e","r","f","a","c","e">>), CLR_KEYWORD, TRUE>>

\* the (text, color, bold) tuples of a list of segments
Triples(segs) == [j \in 1..Len(segs) |-> Triple(segs[j])]

\* colorize_line was called with l
Colorized(l) == pc = "colorized" /\ line = l

Line_Prompt == <<"s","w","1","#"," ","s","h","o","w"," ","i","p"," ","o","s","p","f"," ","n","e","i","g","h","b","o","r">>

StatusPosWords ==
    {<<"u","p">>,
     <<"f","u","l","l">>,
     <<"e","s","t","a","b","l","i","s","h","e","d">>,
     <<"e","s","t","a","b">>,
     <<"f","i","x","e","d">>,
     <<"f","o","r","w","a","r","d","i","n","g">>}

StatusNegWords ==
    {<<"d","o","w","n">>,
     <<"f","a","i","l">>,
     <<"e","r","r","o","r">>,
     <<"d","r","o","p","p","e","d">>,
     <<"f","a","i","l","e","d">>,
     <<"b","l","o","c","k","e","d">>}

LowerText(w) == [k \in 1..Len(w) |-> ToLower(w[k])]

\* the span is a whole word of the line
WholeWord(m) == ~IsWord(Input, m.s) /\ ~IsWord(Input, m.e + 1)

Line_Up == <<"U","p"," ","u","p"," ","U","P">>
Line_Down == <<"D","O","W","N"," ","d","o","w","n"," ","F","U","L","L">>
Line_UpperNames == <<"S","W","P","1"," ","I","N","T","E","R","F","A","C","E">>
Line_UpperKeyword == <<"I","N","T","E","R","F","A","C","E"," ","S","W","1","#"," ","S","w","p","1">>
Line_NotWholeWord == <<"U","P","x"," ","x","D","O","W","N">>

\* C14: the two status patterns match in any letter case and only whole
\* words ('UP', 'up', 'Up', 'FULL' positive; 'DOWN', 'down' negative); the other
\* patterns are case-sensitive: 'SWP1', 'SW1#', 'Swp1' and 'INTERFACE', at the
\* line start or not, are not coloured.
C14_CaseHandling ==
    /\ Returned =>
          \A k \in 1..Len(matches) :
              /\ matches[k].color = CLR_GREEN =>
                    (LowerText(SpanText(matches[k])) \in StatusPosWords /\ WholeWord(matches[k]))
              /\ matches[k].color = CLR_RED =>
                    (LowerText(SpanText(matches[k])) \in StatusNegWords /\ WholeWord(matches[k]))
    /\ Colorized(Line_Up) =>
          Triples(segments) =
              <<<<<<"U","p">>, CLR_GREEN, TRUE>>,
                 <<<<" ">>, CLR_DEFAULT, FALSE>>,
                 <<<<"u","p">>, CLR_GREEN, TRUE>>,
                 <<<<" ">>, CLR_DEFAULT, FALSE>>,
                 <<<<"U","P">>, CLR_GREEN, TRUE>>>>
    /\ Colorized(Line_Down) =>
          Triples(segments) =
              <<<<<<"D","O","W","N">>, CLR_RED, TRUE>>,
                 <<<<" ">>, CLR_DEFAULT, FALSE>>,
                 <<<<"d","o","w","n">>, CLR_RED, TRUE>>,
                 <<<<" ">>, CLR_DEFAULT, FALSE>>,
                 <<<<"F","U","L","L">>, CLR_GREEN, TRUE>>>>
    /\ Colorized(Line_UpperNames) => Triples(segments) = <<<<Line_UpperNames, CLR_DEFAULT, FALSE>>>>
    /\ Colorized(Line_UpperKeyword) => Triples(segments) = <<<<Line_UpperKeyword, CLR_DEFAULT, FALSE>>>>
    /\ Colorized(Line_NotWholeWord) => Triples(segments) = <<<<Line_NotWholeWord, CLR_DEFAULT, FALSE>>>>

C14_Witness ==
    /\ Colorized(Line_Up)
    /\ Len(filtered) = 3
    /\ \A j \in 1..3 : filtered[j].color = CLR_GREEN

VNILiterals ==
    {<<"4","0","1","1","5","1">>, <<"4","0","1","1","5","2">>, <<"4","0","1","1","5","3">>, <<"5","0","1","0","1">>}

Line_Mac == <<"a","a",":","b","b",":","c","c",":","0","0",":","2","4",":","0","0"," ","C","A"," ","1","1","5","1">>
Line_Numbers == <<"5","0","1","0","1"," ","1","1","5","1"," ","4","0","1","1","5","1","1">>

\* C15: a number is VNI-coloured only as a whole word that is one of 401151,
\* 401152, 401153, 50101; 1151 stays default-coloured: 'aa:bb:cc:00:24:00 CA
\* 1151' gives the MAC-coloured 'aa:bb:cc:00:24:00' and the default-coloured
\* ' CA 1151'.
C15_VNIAllowList ==
    /\ Returned =>
          \A j \in 1..Len(segments) :
              segments[j].color = CLR_VNI =>
                  /\ segments[j].text \in VNILiterals
                  /\ ~IsWord(Input, segments[j].lo) /\ ~IsWord(Input, segments[j].hi + 1)
    /\ Colorized(Line_Mac) =>
          Triples(segments) =
              <<<<<<"a","a",":","b","b",":","c","c",":","0","0",":","2","4",":","0","0">>, CLR_MAC, FALSE>>,
                 <<<<" ","C","A"," ","1","1","5","1">>, CLR_DEFAULT, FALSE>>>>
    /\ Colorized(Line_Numbers) =>
          Triples(segments) =
              <<<<<<"5","0","1","0","1">>, CLR_VNI, FALSE>>,
                 <<<<" ","1","1","5","1"," ","4","0","1","1","5","1","1">>, CLR_DEFAULT, FALSE>>>>

C15_Witness ==
    /\ Colorized(Line_Mac)
    /\ Len(segments) = 2
    /\ segments[1].color = CLR_MAC

Line_Ospf == <<"1","2",".","1","2",".","1","2",".","1"," ","F","U","L","L"," ","1",".","1",".","1",".","3">>

\* C16: '12.12.12.1 FULL 1.1.1.3' gives five segments: '12.12.12.1' IP-coloured
\* not bold, ' ' default, 'FULL' positive-status-coloured bold, ' ' default,
\* '1.1.1.3' IP-coloured not bold.
C16_OspfScenario ==
    Colorized(Line_Ospf) =>
        Triples(segments) =
            <<<<<<"1","2",".","1","2",".","1","2",".","1">>, CLR_IP, FALSE>>,
                 <<<<" ">>, CLR_DEFAULT, FALSE>>,
                 <<<<"F","U","L","L">>, CLR_GREEN, TRUE>>,
                 <<<<" ">>, CLR_DEFAULT, FALSE>>,
                 <<<<"1",".","1",".","1",".","3">>, CLR_IP, FALSE>>>>

C16_Witness ==
    /\ Colorized(Line_Ospf)
    /\ Len(segments) = 5
    /\ Len(matches) = 3

Line_Swp == <<"s","w","p","1">>
Line_Gig == <<"G","i","g","a","b","i","t","E","t","h","e","r","n","e","t","1","/","0","/","3">>

\* C17: 'swp1' is one interface-coloured segment, and 'GigabitEthernet1/0/3' is
\* one interface-coloured segment of the whole token, '/0/3' included; neither
\* is bold.
C17_Interfaces ==
    /\ Colorized(Line_Swp) => Triples(segments) = <<<<Line_Swp, CLR_IFACE, FALSE>>>>
    /\ Colorized(Line_Gig) => Triples(segments) = <<<<Line_Gig, CLR_IFACE, FALSE>>>>

C17_Witness ==
    /\ Colorized(Line_Gig)
    /\ Len(segments) = 1
    /\ segments[1].hi = 20

\* C18: an exception of doc.save other than PermissionError leaves the loop at
\* once: no candidate is attempted after it and nothing is printed; a
\* PermissionError never leaves the loop.
C18_OnlyLockRecovered ==
    /\ \A k \in 1..Len(attempts) :
          attempts[k].outcome \notin {"ok", "PermissionError"}
              => /\ k = Len(attempts)
                 /\ spc = "aborted"
                 /\ raised = attempts[k].outcome
                 /\ printed = <<>>
    /\ raised # "PermissionError"
    /\ (attempts # <<>> /\ attempts[Len(attempts)].outcome = "PermissionError")
          => (spc = "aborted" => raised = "FileNotFoundError")

\* _v3 is locked, saving _v3a raises OSError: the run ends, _v3b is not tried
C18_Witness ==
    /\ spc = "aborted"
    /\ Len(attempts) = 2
    /\ attempts[1].outcome = "PermissionError"
    /\ attempts[2].outcome = "OSError"
    /\ raised = "OSError"
    /\ env[3].outcome = "ok"

\* segment j is a kept span
IsSpanSegment(j) ==
    \E k \in 1..Len(filtered) :
        /\ filtered[k].s = segments[j].lo /\ filtered[k].e = segments[j].hi
        /\ filtered[k].color = segments[j].color /\ filtered[k].bold = segments[j].bold

\* the non-empty ranges of the line outside the kept spans
GapRanges ==
    LET n == Len(filtered)
        all == IF n = 0 THEN {<<0, Len(Input)>>}
               ELSE {<<0, filtered[1].s>>, <<filtered[n].e, Len(Input)>>}
                    \cup {<<filtered[k].e, filtered[k + 1].s>> : k \in 1..(n - 1)}
    IN {g \in all : g[1] < g[2]}

GapSegments == {j \in 1..Len(segments) : ~IsSpanSegment(j)}

\* C19: every segment that is not a kept span is default-coloured and not
\* bold; every non-empty gap before, between and after the kept spans is one
\* such segment, and no two of them are adjacent.
C19_GapSegments ==
    (Returned /\ ~CommentInput) =>
        /\ \A j \in GapSegments : segments[j].color = CLR_DEFAULT /\ ~segments[j].bold
        /\ \A j \in GapSegments : (j + 1) \notin GapSegments
        /\ \A g \in GapRanges :
              Cardinality({j \in GapSegments : <<segments[j].lo, segments[j].hi>> = g}) = 1
        /\ Input # <<>> => Cardinality(GapSegments) = Cardinality(GapRanges)

\* gaps before and between two kept spans
C19_Witness ==
    /\ pc = "colorized"
    /\ Len(filtered) = 2
    /\ Len(segments) = 4
    /\ GapSegments = {1, 3}

Pictures == {j \in 1..Len(body) : body[j].kind = "picture"}

Placeholders == {j \in 1..Len(body) : body[j] = Placeholder}

RenderedText == ConcatTexts(runs)

\* every character of the line is white space (the empty line included)
Blank(l) == \A k \in 1..Len(l) : l[k] \in Space

BoldPatterns == {2, 6, 7, 11, 12}

\* the pattern whose kept span segment j is, 0 for a gap, the comment
\* segment or the whole-line segment
PatternOfSegment(j) ==
    IF IsSpanSegment(j)
    THEN LET k == CHOOSE k \in 1..Len(filtered) :
                     filtered[k].s = segments[j].lo /\ filtered[k].e = segments[j].hi
         IN filtered[k].pat
    ELSE 0

\* C23: one run per segment, in segment order, with the segment's text and
\* colour; a run is bold exactly when its segment is, and only prompt,
\* status and keyword segments are.
C23_SegmentToRun ==
    pc = "rendered" =>
        /\ Len(runs) = Len(segments)
        /\ \A j \in 1..Len(runs) :
              /\ runs[j].text = segments[j].text
              /\ runs[j].color = segments[j].color
              /\ runs[j].bold <=> segments[j].bold
              /\ runs[j].bold <=> PatternOfSegment(j) \in BoldPatterns
              /\ runs[j].bold <=> runs[j].color \in {CLR_PROMPT, CLR_GREEN, CLR_RED, CLR_KEYWORD}

\* 'sw1# show ip ospf neighbor' rendered: a bold prompt run, then a run that
\* is not bold
C23_Witness ==
    /\ pc = "rendered"
    /\ line = Line_Prompt
    /\ Len(runs) >= 2
    /\ runs[1].bold /\ runs[1].color = CLR_PROMPT
    /\ ~runs[2].bold

\* the paragraphs the body held before the call
Prior == IF body # <<>> /\ body[1].kind = "heading" THEN 1 ELSE 0

\* the newline-separated lines of t, by the places of its newlines
NewlinesOf(t) == {k \in 1..Len(t) : t[k] = NL}

NthNewline(t, n) ==
    IF n = 0 THEN 0
    ELSE IF n > Cardinality(NewlinesOf(t)) THEN Len(t) + 1
    ELSE CHOOSE k \in NewlinesOf(t) : Cardinality({j \in NewlinesOf(t) : j <= k}) = n

LineOf(t, n) == SubSeq(t, NthNewline(t, n - 1) + 1, NthNewline(t, n) - 1)

\* C24: one CodeBlock paragraph per line of the cleaned and stripped text, in
\* line order, at least one; 4pt before the first alone and after the last
\* alone, 0 elsewhere; the first paragraph is returned.
C24_CodeBlockParagraphs ==
    pc = "block" =>
        LET cl == clean(text)
            added == Len(body) - Prior
        IN /\ added = Cardinality(NewlinesOf(cl)) + 1
           /\ added >= 1
           /\ Prior = 1 => body[1] = Heading
           /\ \A i \in 1..added :
                 LET p == body[Prior + i]
                     ln == LineOf(cl, i)
                 IN /\ p.kind = "paragraph" /\ p.style = "CodeBlock"
                    /\ ConcatTexts(p.runs) = IF Blank(ln) THEN <<NBSP>> ELSE ln
                    /\ p.space_before = IF i = 1 THEN 4 ELSE 0
                    /\ p.space_after = IF i = added THEN 4 ELSE 0
           /\ ret = Prior + 1

\* a block of three lines after a heading: the middle paragraph has no spacing
C24_Witness ==
    /\ pc = "block"
    /\ text \in ScenarioTexts
    /\ Len(body) = 4
    /\ body[3].space_before = 0 /\ body[3].space_after = 0
    /\ ConcatTexts(body[4].runs) = <<"<","1",".","1",".","1",".","1",">"," ","[",ZWSP,"x","]">>
    /\ ret = 2

\* the empty text: one paragraph with both spacings
C24_WitnessEmpty ==
    /\ pc = "block"
    /\ text = <<>>
    /\ Len(body) = 1
    /\ body[1].space_before = 4 /\ body[1].space_after = 4

\* the sections are all added
LaidOut == spc \notin {"setup", "add_landscape", "add_portrait"}

\* C25: three sections, portrait, landscape, portrait; the landscape section
\* has the first section's width and height exchanged and is wider than high;
\* the last has the first section's width and height; left and right margins
\* are 2.5cm, 2cm, 2.5cm.
C25_SectionOrientations ==
    LaidOut =>
        /\ Len(sections) = 3
        /\ <<sections[1].orientation, sections[2].orientation, sections[3].orientation>>
              = <<"portrait", "landscape", "portrait">>
        /\ sections[2].page_width = sections[1].page_height
        /\ sections[2].page_height = sections[1].page_width
        /\ sections[2].page_width > sections[2].page_height
        /\ sections[3].page_width = sections[1].page_width
        /\ sections[3].page_height = sections[1].page_height
        /\ \E page \in PageSizes :
              sections[1].page_width = page.w /\ sections[1].page_height = page.h
        /\ \A k \in {1, 3} :
              sections[k].left_margin = Mm(25) /\ sections[k].right_margin = Mm(25)
        /\ sections[2].left_margin = Mm(20) /\ sections[2].right_margin = Mm(20)

\* the document saved with its three sections, on US Letter
C25_Witness ==
    /\ spc = "done"
    /\ Len(sections) = 3
    /\ sections[2].page_width = 10058400
    /\ sections[3].page_width = 7772400
    /\ sections[3].orientation = "portrait"

\* the positions of the candidates with the smallest start offset, the
\* first-listed pattern's among equals
Earliest ==
    {k \in 1..Len(matches) :
        \A j \in 1..Len(matches) :
            \/ matches[k].s < matches[j].s
            \/ (matches[k].s = matches[j].s /\ matches[k].pat <= matches[j].pat)}

\* candidate c starts strictly inside candidate k
StartsInside(c, k) == k.s < c.s /\ c.s < k.e

\* C27: on a line with a candidate, the candidate with the smallest start
\* offset is kept whatever its pattern's place in the list, and a candidate
\* that starts strictly inside a kept span is dropped, also when its pattern
\* is earlier in the list.
C27_EarliestStartWins ==
    (Returned /\ ~CommentInput /\ matches # <<>>) =>
        /\ Earliest # {}
        /\ \A k \in Earliest : Kept(matches[k]) /\ filtered[1] = matches[k]
        /\ \A c, k \in 1..Len(matches) :
              (Kept(matches[k]) /\ StartsInside(matches[c], matches[k]))
                  => ~Kept(matches[c])

\* the earliest candidate is of a pattern late in the list; a candidate of
\* an earlier pattern starts inside it and is dropped
C27_Witness ==
    /\ Returned
    /\ ~CommentInput
    /\ \E c, k \in 1..Len(matches) :
          /\ k \in Earliest
          /\ matches[k].pat >= 9
          /\ matches[c].pat < matches[k].pat
          /\ StartsInside(matches[c], matches[k])
          /\ Kept(matches[k]) /\ ~Kept(matches[c])

\* the positions of the sorted candidates that were dropped
DroppedPositions == (1..Len(matches)) \ KeptPositions

\* the kept positions scanned before position k
KeptBefore(k) == {j \in KeptPositions : j < k}

\* C28: a dropped candidate overlaps the kept span scanned last before it, so
\* none could be added to the kept spans without an overlap; the kept spans
\* are pairwise disjoint and strictly increasing in start offset.
C28_Maximality ==
    (Returned /\ ~CommentInput) =>
        /\ \A c \in DroppedPositions :
              /\ KeptBefore(c) # {}
              /\ LET p == CHOOSE j \in KeptBefore(c) : \A i \in KeptBefore(c) : i <= j
                 IN Overlap(matches[p], matches[c])
              /\ \E j \in 1..Len(filtered) : Overlap(filtered[j], matches[c])
        /\ \A i, j \in 1..Len(filtered) :
              i < j => (filtered[i].s < filtered[j].s /\ ~Overlap(filtered[i], filtered[j]))

\* a dropped candidate between two kept spans
C28_Witness ==
    /\ Returned
    /\ ~CommentInput
    /\ Len(filtered) >= 2
    /\ \E c \in DroppedPositions :
          /\ KeptBefore(c) # {}
          /\ \E j \in KeptPositions : j > c

\* the places of text where <strong> and </strong> stand
Opens == {i \in 1..Len(text) : LitAt(StrongOpen, text, i)}

Closes == {j \in 1..Len(text) : LitAt(StrongClose, text, j)}

\* the nearest </strong> after the <strong> at i, 0 if there is none
CloseOf(i) ==
    LET after == {j \in Closes : j >= i + Len(StrongOpen)}
    IN IF after = {} THEN 0 ELSE CHOOSE j \in after : \A k \in after : j <= k

\* the <strong> at i opens an element; its content has no line break
Element(i) == i \in Opens /\ CloseOf(i) # 0

ContentOf(i) == SubSeq(text, i + Len(StrongOpen), CloseOf(i) - 1)

OneLineElement(i) == Element(i) /\ \A k \in 1..Len(ContentOf(i)) : ContentOf(i)[k] # NL

\* the least member of a non-empty set of places
First(S) == CHOOSE i \in S : \A j \in S : i <= j

\* the panel type used: the given one if the dictionary has it, else 'info'
UsedType == IF panel_type \in {"info", "success", "warning", "error"} THEN panel_type ELSE "info"

\* the panel is one paragraph of a bold accent-coloured title run and a body
\* run, in the shading of the used type
PanelShape(title) ==
    /\ Len(body) = 1
    /\ ret = 1
    /\ raised = "none"
    /\ body[1].kind = "paragraph"
    /\ body[1].fill = colors[UsedType].bg
    /\ Len(body[1].runs) = 2
    /\ body[1].runs[1].text = title \o <<":", " ">>
    /\ body[1].runs[1].color = colors[UsedType].accent
    /\ body[1].runs[1].bold
    /\ ~body[1].runs[2].bold

C29_WitnessLabel ==
    /\ pc = "panel"
    /\ panel_type = "INFO"
    /\ text = <<"a">>
    /\ body[1].runs[1].text = colors["info"].label \o <<":", " ">>

====
